---- MODULE Spec2Model ----
(***************************************************************************)
(* Model of servico_ofertas (src/api/index.py): the offer write path.      *)
(* Each HTTP handler (create_offer, update_offer, delete_offer) is split   *)
(* at its two calls on shared systems: the Firestore write and the Kafka   *)
(* publish.  Everything a handler does before its write (token check,      *)
(* body check, document read, existence and ownership checks) touches      *)
(* shared state once, at the read, and is one step.                        *)
(***************************************************************************)
EXTENDS Integers, Sequences, FiniteSets, TLC

\* ---------------------------------------------------------------- bounds
\* Number of requests the service receives in one behaviour.
MaxReqs == 2

ReqIds == 1..MaxReqs
\* Ids the store can hold: the fixture offer 1 plus one per create.
OfferIds == 1..(MaxReqs + 1)

\* ------------------------------------------------------------ documents
\* A JSON object / Firestore document: a function from field names.
Empty == [f \in {} |-> 0]

Get(d, f, default) == IF f \in DOMAIN d THEN d[f] ELSE default

\* dict.update / DocumentReference.update: fields of p replace those of d.
Merge(d, p) == [f \in DOMAIN d \cup DOMAIN p |-> IF f \in DOMAIN p THEN p[f] ELSE d[f]]

\* firestore.SERVER_TIMESTAMP, the sentinel the store replaces by its clock.
SERVER_TIMESTAMP == -1

TimestampFields == {"created_at", "updated_at"}

\* What the store persists for a written document: sentinels become `now`.
Resolve(d, now) ==
    [f \in DOMAIN d |->
        IF f \in TimestampFields /\ d[f] = SERVER_TIMESTAMP THEN now ELSE d[f]]

\* The products collection (read-only for this service).
Products ==
    [p \in {"P1", "P2"} |->
        IF p = "P1" THEN [owner_uid |-> "U1", store_id |-> "S1"]
                    ELSE [owner_uid |-> "U2", store_id |-> "S2"]]

\* The offer the store already holds (the tests' fixture document).
FixtureOffer ==
    [product_id |-> "P1", offer_price |-> 80, store_id |-> "S1",
     owner_uid |-> "U1", created_at |-> 0, updated_at |-> 0]

\* ------------------------------------------------------- authentication
Uids == {"U1", "U2"}
NoUid == "no-uid"

\* auth.verify_id_token: the uid of a valid token, else it raises.
VerifyIdToken(token) == IF token \in Uids THEN token ELSE NoUid

\* Mutant of Authenticate: the header's scheme is not looked at.
AuthenticateAnyScheme(hdr) == VerifyIdToken(hdr.token)

\* The header check and token verification shared by the three handlers.
Authenticate(hdr) ==
    IF hdr.scheme # "Bearer" THEN NoUid ELSE VerifyIdToken(hdr.token)

\* -------------------------------------------------------------- inputs
Headers ==
    { [scheme |-> "none",   token |-> ""],
      [scheme |-> "Basic",  token |-> "U1"],
      [scheme |-> "Bearer", token |-> "expired"],
      [scheme |-> "Bearer", token |-> "U1"],
      [scheme |-> "Bearer", token |-> "U2"] }

CreateBodies ==
    { Empty,
      [product_id |-> "P1"],
      [offer_price |-> 5],
      [product_id |-> "P1", offer_price |-> 0],
      [product_id |-> "P1", offer_price |-> 0 - 3],
      [product_id |-> "P1", offer_price |-> 5],
      [product_id |-> "P2", offer_price |-> 5],
      [product_id |-> "P9", offer_price |-> 5],
      [product_id |-> "P1", offer_price |-> 5, owner_uid |-> "U2"],
      [product_id |-> "P1", offer_price |-> 5, store_id |-> "SX"],
      [product_id |-> "P2", offer_price |-> 5, owner_uid |-> "U1", store_id |-> "SX"] }

Patches ==
    { Empty,
      [offer_price |-> 7],
      [owner_uid |-> "U2"],
      [store_id |-> "SX"],
      [created_at |-> 99],
      [updated_at |-> 0],
      [offer_price |-> 7, owner_uid |-> "U2"] }

\* Offer ids a caller may name in a PUT or DELETE.
TargetIds == {1, 2}

\* The environment variables the service reads.
EnvVars ==
    {"FIREBASE_ADMIN_SDK_BASE64", "KAFKA_BOOTSTRAP_SERVER",
     "KAFKA_API_KEY", "KAFKA_API_SECRET"}

\* ---------------------------------------------------------------- state
VARIABLES
    db,        \* TRUE iff the Firestore client was initialised
    producer,  \* TRUE iff the Kafka producer was initialised
    env,       \* the configuration variables present in os.environ
    offers,    \* the offers collection: id -> document, for the ids that exist
    clock,     \* the store's server time
    reqs,      \* per request: its inputs, handler position, locals, response
    commits,   \* history: the writes the store committed, in commit order
    calls      \* history: the publish_event calls, in call order, with outcome

vars == <<db, producer, env, offers, clock, reqs, commits, calls>>

IdleReq ==
    [op |-> "none", hdr |-> [scheme |-> "none", token |-> ""], body |-> Empty,
     offer_id |-> 0, uid |-> NoUid, data |-> Empty, read |-> "none",
     pc |-> "idle", status |-> 0]

\* Start-up with any configuration: a client is initialised only if the
\* variable it is built from is present (and its construction did not raise).
InitAnyEnv ==
    /\ env \in SUBSET EnvVars
    /\ db \in BOOLEAN
    /\ db => "FIREBASE_ADMIN_SDK_BASE64" \in env
    /\ producer \in BOOLEAN
    /\ producer => "KAFKA_BOOTSTRAP_SERVER" \in env
    /\ offers = [i \in {1} |-> FixtureOffer]
    /\ clock = 1
    /\ reqs = [r \in ReqIds |-> IdleReq]
    /\ commits = <<>>
    /\ calls = <<>>

\* Start-up with the full configuration present.
Init ==
    /\ env = EnvVars
    /\ db \in BOOLEAN
    /\ producer \in BOOLEAN
    /\ offers = [i \in {1} |-> FixtureOffer]
    /\ clock = 1
    /\ reqs = [r \in ReqIds |-> IdleReq]
    /\ commits = <<>>
    /\ calls = <<>>

\* Requests arrive in the order of their ids.
Arrives(r) ==
    /\ reqs[r].pc = "idle"
    /\ \A q \in ReqIds : q < r => reqs[q].pc # "idle"

\* The handler returns `status`.
Respond(req, status) == [req EXCEPT !.pc = "done", !.status = status]

\* The handler's document read returned (history: "ok") or raised ("error").
ReadOk(req) == [req EXCEPT !.read = "ok"]
ReadError(req) == [req EXCEPT !.read = "error"]

\* The id Firestore's add() gives a new document: never one used before.
NewId == 2 + Cardinality({i \in DOMAIN commits : commits[i].op = "create"})

\* ------------------------------------------------------------- create
ValidCreateBody(body) ==
    /\ body # Empty
    /\ Get(body, "product_id", "") # ""
    /\ Get(body, "offer_price", 0) # 0

\* Mutant of OfferToCreate: the server values only fill the fields the body
\* left out (setdefault instead of assignment).
OfferToCreateKeepsSupplied(body, uid) ==
    Merge([store_id |-> Products[body.product_id].store_id,
           owner_uid |-> uid,
           created_at |-> SERVER_TIMESTAMP,
           updated_at |-> SERVER_TIMESTAMP], body)

\* offer_to_create: the body with the server-assigned fields written over it.
OfferToCreate(body, uid) ==
    Merge(Merge(body, [store_id |-> Products[body.product_id].store_id]),
          [owner_uid |-> uid,
           created_at |-> SERVER_TIMESTAMP,
           updated_at |-> SERVER_TIMESTAMP])

\* Mutant of CreateCheck: ownership is compared before existence is tested,
\* so a product that does not exist (no owner) answers 403.
CreateCheckOwnerFirst(req, storeOk) ==
    IF ~db THEN Respond(req, 503)
    ELSE IF Authenticate(req.hdr) = NoUid THEN Respond(req, 401)
    ELSE IF ~ValidCreateBody(req.body) THEN Respond(req, 400)
    ELSE IF ~storeOk THEN Respond(ReadError(req), 500)
    ELSE IF (IF req.body.product_id \in DOMAIN Products
             THEN Products[req.body.product_id].owner_uid
             ELSE NoUid) # Authenticate(req.hdr)
         THEN Respond(ReadOk(req), 403)
    ELSE IF req.body.product_id \notin DOMAIN Products
         THEN Respond(ReadOk(req), 404)
    ELSE [ReadOk(req) EXCEPT !.pc = "write",
                     !.uid = Authenticate(req.hdr),
                     !.data = OfferToCreate(req.body, Authenticate(req.hdr))]

\* Mutant of CreateCheck: the body is validated before the token is
\* examined.
CreateCheckValidatesFirst(req, storeOk) ==
    IF ~db THEN Respond(req, 503)
    ELSE IF ~ValidCreateBody(req.body) THEN Respond(req, 400)
    ELSE IF Authenticate(req.hdr) = NoUid THEN Respond(req, 401)
    ELSE IF ~storeOk THEN Respond(ReadError(req), 500)
    ELSE IF req.body.product_id \notin DOMAIN Products
         THEN Respond(ReadOk(req), 404)
    ELSE IF Products[req.body.product_id].owner_uid # Authenticate(req.hdr)
         THEN Respond(ReadOk(req), 403)
    ELSE [ReadOk(req) EXCEPT !.pc = "write",
                     !.uid = Authenticate(req.hdr),
                     !.data = OfferToCreate(req.body, Authenticate(req.hdr))]

\* create_offer up to and including the product read and its checks.
CreateCheck(req, storeOk) ==
    IF ~db THEN Respond(req, 503)
    ELSE IF Authenticate(req.hdr) = NoUid THEN Respond(req, 401)
    ELSE IF ~ValidCreateBody(req.body) THEN Respond(req, 400)
    ELSE IF ~storeOk THEN Respond(ReadError(req), 500)
    ELSE IF req.body.product_id \notin DOMAIN Products
         THEN Respond(ReadOk(req), 404)
    ELSE IF Products[req.body.product_id].owner_uid # Authenticate(req.hdr)
         THEN Respond(ReadOk(req), 403)
    ELSE [ReadOk(req) EXCEPT !.pc = "write",
                     !.uid = Authenticate(req.hdr),
                     !.data = OfferToCreate(req.body, Authenticate(req.hdr))]

CreateStart(r, hdr, body, storeOk) ==
    /\ Arrives(r)
    /\ reqs' = [reqs EXCEPT ![r] =
                  CreateCheck([IdleReq EXCEPT !.op = "create", !.hdr = hdr,
                                              !.body = body], storeOk)]
    /\ UNCHANGED <<db, producer, env, offers, clock, commits, calls>>

\* db.collection('offers').add(offer_to_create)
CreateWrite(r, storeOk) ==
    /\ reqs[r].pc = "write"
    /\ reqs[r].op = "create"
    /\ IF ~storeOk
       THEN /\ reqs' = [reqs EXCEPT ![r] = Respond(@, 500)]
            /\ UNCHANGED <<offers, clock, commits>>
       ELSE /\ offers' = [i \in DOMAIN offers \cup {NewId} |->
                            IF i = NewId THEN Resolve(reqs[r].data, clock)
                                         ELSE offers[i]]
            /\ clock' = clock + 1
            /\ commits' = Append(commits,
                             [req |-> r, op |-> "create", offer_id |-> NewId,
                              uid |-> reqs[r].uid,
                              doc |-> Resolve(reqs[r].data, clock)])
            /\ reqs' = [reqs EXCEPT ![r].pc = "publish", ![r].offer_id = NewId]
    /\ UNCHANGED <<db, producer, env, calls>>

\* ------------------------------------------------------ publish_event
\* How a publish_event call ends: it returns at once without a producer;
\* otherwise the message is handed to the sink (`sinkOk`) or produce raises /
\* the delivery report carries an error, which is printed and forgotten.
PublishOutcome(sinkOk) ==
    IF ~producer THEN "no_producer"
    ELSE IF sinkOk THEN "delivered"
    ELSE "failed"

\* publish_event(topic, event_type, offer_id, data), called by request r.
PublishEvent(r, event_type, offer_id, data, sinkOk) ==
    calls' = Append(calls,
                [req |-> r, event_type |-> event_type, offer_id |-> offer_id,
                 data |-> data, source_service |-> "servico-ofertas",
                 outcome |-> PublishOutcome(sinkOk)])

\* The messages the event sink received, in order.
Sink == SelectSeq(calls, LAMBDA c : c.outcome = "delivered")

\* publish_event(..., 'OfferCreated', doc_ref.id, offer_to_create); return 201
CreatePublish(r, sinkOk) ==
    /\ reqs[r].pc = "publish"
    /\ reqs[r].op = "create"
    /\ PublishEvent(r, "OfferCreated", reqs[r].offer_id, reqs[r].data, sinkOk)
    /\ reqs' = [reqs EXCEPT ![r] = Respond(@, 201)]
    /\ UNCHANGED <<db, producer, env, offers, clock, commits>>

\* ------------------------------------------------------------- update
\* Mutant of UpdateData: the stamp replaces the patch instead of joining it.
UpdateDataStampOnly(patch) == [updated_at |-> SERVER_TIMESTAMP]

\* Mutant of UpdateData: the stamp only fills updated_at when the patch has
\* none.
UpdateDataKeepsSupplied(patch) == Merge([updated_at |-> SERVER_TIMESTAMP], patch)

\* update_data once line 192 has stamped it.
UpdateData(patch) == Merge(patch, [updated_at |-> SERVER_TIMESTAMP])

\* Mutant of UpdateCheck: the ownership comparison is missing.
UpdateCheckNoOwnerTest(req, storeOk) ==
    IF ~db THEN Respond(req, 503)
    ELSE IF Authenticate(req.hdr) = NoUid THEN Respond(req, 401)
    ELSE IF req.body = Empty THEN Respond(req, 400)
    ELSE IF ~storeOk THEN Respond(ReadError(req), 500)
    ELSE IF req.offer_id \notin DOMAIN offers THEN Respond(ReadOk(req), 404)
    ELSE [ReadOk(req) EXCEPT !.pc = "write",
                     !.uid = Authenticate(req.hdr),
                     !.data = UpdateData(req.body)]

\* update_offer up to and including the offer read and its checks.
UpdateCheck(req, storeOk) ==
    IF ~db THEN Respond(req, 503)
    ELSE IF Authenticate(req.hdr) = NoUid THEN Respond(req, 401)
    ELSE IF req.body = Empty THEN Respond(req, 400)
    ELSE IF ~storeOk THEN Respond(ReadError(req), 500)
    ELSE IF req.offer_id \notin DOMAIN offers THEN Respond(ReadOk(req), 404)
    ELSE IF Get(offers[req.offer_id], "owner_uid", NoUid) # Authenticate(req.hdr)
         THEN Respond(ReadOk(req), 403)
    ELSE [ReadOk(req) EXCEPT !.pc = "write",
                     !.uid = Authenticate(req.hdr),
                     !.data = UpdateData(req.body)]

UpdateStart(r, hdr, id, patch, storeOk) ==
    /\ Arrives(r)
    /\ reqs' = [reqs EXCEPT ![r] =
                  UpdateCheck([IdleReq EXCEPT !.op = "update", !.hdr = hdr,
                                              !.offer_id = id, !.body = patch],
                              storeOk)]
    /\ UNCHANGED <<db, producer, env, offers, clock, commits, calls>>

\* offer_ref.update(update_data): raises when the document is gone.
UpdateWrite(r, storeOk) ==
    /\ reqs[r].pc = "write"
    /\ reqs[r].op = "update"
    /\ IF ~storeOk \/ reqs[r].offer_id \notin DOMAIN offers
       THEN /\ reqs' = [reqs EXCEPT ![r] = Respond(@, 500)]
            /\ UNCHANGED <<offers, clock, commits>>
       ELSE /\ offers' = [offers EXCEPT ![reqs[r].offer_id] =
                            Merge(@, Resolve(reqs[r].data, clock))]
            /\ clock' = clock + 1
            /\ commits' = Append(commits,
                             [req |-> r, op |-> "update",
                              offer_id |-> reqs[r].offer_id,
                              uid |-> reqs[r].uid,
                              doc |-> Merge(offers[reqs[r].offer_id],
                                            Resolve(reqs[r].data, clock))])
            /\ reqs' = [reqs EXCEPT ![r].pc = "publish"]
    /\ UNCHANGED <<db, producer, env, calls>>

\* Mutant of UpdatePublish: publish_event lets a publish failure escape, and
\* the handler's except clause answers 500.
UpdatePublishSurfacesFailure(r, sinkOk) ==
    /\ reqs[r].pc = "publish"
    /\ reqs[r].op = "update"
    /\ PublishEvent(r, "OfferUpdated", reqs[r].offer_id, reqs[r].data, sinkOk)
    /\ reqs' = [reqs EXCEPT ![r] =
                  Respond(@, IF PublishOutcome(sinkOk) = "failed" THEN 500 ELSE 200)]
    /\ UNCHANGED <<db, producer, env, offers, clock, commits>>

\* publish_event(..., 'OfferUpdated', offer_id, update_data); return 200
UpdatePublish(r, sinkOk) ==
    /\ reqs[r].pc = "publish"
    /\ reqs[r].op = "update"
    /\ PublishEvent(r, "OfferUpdated", reqs[r].offer_id, reqs[r].data, sinkOk)
    /\ reqs' = [reqs EXCEPT ![r] = Respond(@, 200)]
    /\ UNCHANGED <<db, producer, env, offers, clock, commits>>

\* ------------------------------------------------------------- delete
\* delete_offer up to and including the offer read and its checks.
DeleteCheck(req, storeOk) ==
    IF ~db THEN Respond(req, 503)
    ELSE IF Authenticate(req.hdr) = NoUid THEN Respond(req, 401)
    ELSE IF ~storeOk THEN Respond(ReadError(req), 500)
    ELSE IF req.offer_id \notin DOMAIN offers THEN Respond(ReadOk(req), 404)
    ELSE IF Get(offers[req.offer_id], "owner_uid", NoUid) # Authenticate(req.hdr)
         THEN Respond(ReadOk(req), 403)
    ELSE [ReadOk(req) EXCEPT !.pc = "write", !.uid = Authenticate(req.hdr)]

DeleteStart(r, hdr, id, storeOk) ==
    /\ Arrives(r)
    /\ reqs' = [reqs EXCEPT ![r] =
                  DeleteCheck([IdleReq EXCEPT !.op = "delete", !.hdr = hdr,
                                              !.offer_id = id], storeOk)]
    /\ UNCHANGED <<db, producer, env, offers, clock, commits, calls>>

\* offer_ref.delete(): succeeds whether or not the document still exists.
DeleteWrite(r, storeOk) ==
    /\ reqs[r].pc = "write"
    /\ reqs[r].op = "delete"
    /\ IF ~storeOk
       THEN /\ reqs' = [reqs EXCEPT ![r] = Respond(@, 500)]
            /\ UNCHANGED <<offers, clock, commits>>
       ELSE /\ offers' = [i \in DOMAIN offers \ {reqs[r].offer_id} |-> offers[i]]
            /\ clock' = clock + 1
            /\ commits' = Append(commits,
                             [req |-> r, op |-> "delete",
                              offer_id |-> reqs[r].offer_id,
                              uid |-> reqs[r].uid, doc |-> Empty])
            /\ reqs' = [reqs EXCEPT ![r].pc = "publish"]
    /\ UNCHANGED <<db, producer, env, calls>>

\* publish_event(..., 'OfferDeleted', offer_id, {"offer_id": offer_id}); 204
DeletePublish(r, sinkOk) ==
    /\ reqs[r].pc = "publish"
    /\ reqs[r].op = "delete"
    /\ PublishEvent(r, "OfferDeleted", reqs[r].offer_id,
                    [offer_id |-> reqs[r].offer_id], sinkOk)
    /\ reqs' = [reqs EXCEPT ![r] = Respond(@, 204)]
    /\ UNCHANGED <<db, producer, env, offers, clock, commits>>

\* ---------------------------------------------------------------- get
\* Mutant of GetOfferCheck: the handler asks for a token like the others.
GetOfferCheckRequiresToken(req, storeOk) ==
    IF ~db THEN Respond(req, 503)
    ELSE IF Authenticate(req.hdr) = NoUid THEN Respond(req, 401)
    ELSE IF ~storeOk THEN Respond(ReadError(req), 500)
    ELSE IF req.offer_id \notin DOMAIN offers THEN Respond(ReadOk(req), 404)
    ELSE Respond([ReadOk(req) EXCEPT !.data =
                     Merge(offers[req.offer_id], [id |-> req.offer_id])], 200)

\* get_offer: the response body (kept in `data`) is the document plus its id.
GetOfferCheck(req, storeOk) ==
    IF ~db THEN Respond(req, 503)
    ELSE IF ~storeOk THEN Respond(ReadError(req), 500)
    ELSE IF req.offer_id \notin DOMAIN offers THEN Respond(ReadOk(req), 404)
    ELSE Respond([ReadOk(req) EXCEPT !.data =
                     Merge(offers[req.offer_id], [id |-> req.offer_id])], 200)

GetOffer(r, hdr, id, storeOk) ==
    /\ Arrives(r)
    /\ reqs' = [reqs EXCEPT ![r] =
                  GetOfferCheck([IdleReq EXCEPT !.op = "get", !.hdr = hdr,
                                                !.offer_id = id], storeOk)]
    /\ UNCHANGED <<db, producer, env, offers, clock, commits, calls>>

\* ------------------------------------------------------------- health
\* get_health_status
GetHealthStatus ==
    [environment_variables |->
        [v \in EnvVars |-> IF v \in env THEN "present" ELSE "missing"],
     dependencies |->
        [firestore |-> IF db THEN "ok" ELSE "error",
         kafka_producer |-> IF producer THEN "ok" ELSE "error"],
     initialization_errors |->
        [firestore |-> IF db THEN "None" ELSE "firebase_init_error",
         kafka_producer |-> IF producer THEN "None"
                            ELSE "kafka_producer_init_error"]]

\* health_check's all_ok and the HTTP status it selects.
HealthHttpStatus(status) ==
    IF /\ \A v \in EnvVars : status.environment_variables[v] = "present"
       /\ status.dependencies.firestore = "ok"
       /\ status.dependencies.kafka_producer = "ok"
    THEN 200 ELSE 503

\* health_check: the response body is kept in `data`.
HealthCheck(r) ==
    /\ Arrives(r)
    /\ reqs' = [reqs EXCEPT ![r] =
                  Respond([IdleReq EXCEPT !.op = "health",
                                          !.data = GetHealthStatus],
                          HealthHttpStatus(GetHealthStatus))]
    /\ UNCHANGED <<db, producer, env, offers, clock, commits, calls>>

\* -------------------------------------------------------------- crash
\* The worker process dies while a handler is between its store write and
\* its response: the handler never resumes and nothing is rolled back.
Crash(r) ==
    /\ reqs[r].pc \in {"write", "publish"}
    /\ reqs' = [reqs EXCEPT ![r].pc = "crashed"]
    /\ UNCHANGED <<db, producer, env, offers, clock, commits, calls>>

\* --------------------------------------------------------------- spec
Next ==
    \E r \in ReqIds :
        \/ \E hdr \in Headers, body \in CreateBodies, storeOk \in BOOLEAN :
               CreateStart(r, hdr, body, storeOk)
        \/ \E storeOk \in BOOLEAN : CreateWrite(r, storeOk)
        \/ \E sinkOk \in BOOLEAN : CreatePublish(r, sinkOk)
        \/ \E hdr \in Headers, id \in TargetIds, patch \in Patches,
              storeOk \in BOOLEAN :
               UpdateStart(r, hdr, id, patch, storeOk)
        \/ \E storeOk \in BOOLEAN : UpdateWrite(r, storeOk)
        \/ \E sinkOk \in BOOLEAN : UpdatePublish(r, sinkOk)
        \/ \E hdr \in Headers, id \in TargetIds, storeOk \in BOOLEAN :
               DeleteStart(r, hdr, id, storeOk)
        \/ \E storeOk \in BOOLEAN : DeleteWrite(r, storeOk)
        \/ \E sinkOk \in BOOLEAN : DeletePublish(r, sinkOk)
        \/ \E hdr \in Headers, id \in TargetIds, storeOk \in BOOLEAN :
               GetOffer(r, hdr, id, storeOk)
        \/ HealthCheck(r)
        \/ Crash(r)

Spec == Init /\ [][Next]_vars

\* The read-only endpoints alone, started under any configuration.
NextReadOnly ==
    \E r \in ReqIds :
        \/ \E hdr \in Headers, id \in TargetIds, storeOk \in BOOLEAN :
               GetOffer(r, hdr, id, storeOk)
        \/ HealthCheck(r)

HealthSpec == InitAnyEnv /\ [][NextReadOnly]_vars

\* ============================================================== claims
CommitsOf(r) == {i \in DOMAIN commits : commits[i].req = r}
CallsOf(r) == {i \in DOMAIN calls : calls[i].req = r}
DeliveredOf(r) == {i \in CallsOf(r) : calls[i].outcome = "delivered"}
Finished(r) == reqs[r].pc \in {"done", "crashed"}
Succeeded(r) ==
    /\ reqs[r].op \in {"create", "update", "delete"}
    /\ reqs[r].status \in {200, 201, 204}

ServerAssignedFields == {"owner_uid", "created_at", "store_id"}

\* Request r is one the specification accepts: a create with a positive
\* price, an update whose patch names no server-assigned field.
Acceptable(r) ==
    /\ reqs[r].op = "create" => Get(reqs[r].body, "offer_price", 0) > 0
    /\ reqs[r].op = "update" =>
           DOMAIN reqs[r].body \cap ServerAssignedFields = {}

\* C1: every mutation committed to the offers store has exactly one event,
\* and every event its committed mutation, once the handler has ended -
\* whether it answered, its publish failed, or the process crashed between
\* the store write and the publication.
C1_CommitHasItsEvent ==
    \A r \in ReqIds :
        (Finished(r) /\ Acceptable(r))
            => Cardinality(DeliveredOf(r)) = Cardinality(CommitsOf(r))

\* C2: for every create answered 201, the offer it stored has the owner_uid
\* of the caller's token and the store_id of the referenced product, whatever
\* the body supplied (or did not supply) for the two fields.
C2_CreateAssignsOwnerAndStore ==
    \A r \in ReqIds :
        (reqs[r].op = "create" /\ reqs[r].status = 201) =>
            /\ Cardinality(CommitsOf(r)) = 1
            /\ \A i \in CommitsOf(r) :
                /\ commits[i].offer_id = reqs[r].offer_id
                /\ commits[i].doc.owner_uid = VerifyIdToken(reqs[r].hdr.token)
                /\ commits[i].doc.store_id =
                       Products[reqs[r].body.product_id].store_id

\* C2 witness: two creates answered 201, one whose body supplied a foreign
\* owner_uid and a store_id, one whose body supplied neither.
C2_Witness ==
    \E r, q \in ReqIds :
        /\ reqs[r].op = "create" /\ reqs[r].status = 201
        /\ {"owner_uid", "store_id"} \subseteq DOMAIN reqs[r].body
        /\ reqs[r].body.owner_uid # reqs[r].uid
        /\ reqs[q].op = "create" /\ reqs[q].status = 201
        /\ {"owner_uid", "store_id"} \cap DOMAIN reqs[q].body = {}

\* Request r arrives in this step: its handler runs up to its document read.
Starts(r) == reqs[r].pc = "idle" /\ reqs'[r].pc # "idle"

\* C3: an update or delete whose handler read an existing offer owned by
\* someone other than the authenticated caller answers 403 and ends there;
\* the step changes neither the offers nor the events, and a request answered
\* 403 never writes or publishes anything afterwards.
C3_NonOwnerIsForbidden ==
    [][\A r \in ReqIds :
        /\ ( /\ Starts(r)
             /\ reqs'[r].op \in {"update", "delete"}
             /\ reqs'[r].read = "ok"
             /\ reqs'[r].offer_id \in DOMAIN offers
             /\ offers[reqs'[r].offer_id].owner_uid
                    # VerifyIdToken(reqs'[r].hdr.token) )
           => /\ reqs'[r].status = 403
              /\ reqs'[r].pc = "done"
              /\ UNCHANGED <<offers, commits, calls>>
        /\ reqs[r].status = 403
           => /\ reqs'[r] = reqs[r]
              /\ \A i \in DOMAIN commits' : commits'[i].req # r
              /\ \A i \in DOMAIN calls' : calls'[i].req # r
      ]_vars

\* C3 witness: an update and a delete, both answered 403, on an offer that
\* still exists with a different owner.
C3_Witness ==
    \E r, q \in ReqIds :
        /\ reqs[r].op = "update" /\ reqs[r].status = 403
        /\ reqs[q].op = "delete" /\ reqs[q].status = 403
        /\ reqs[r].offer_id \in DOMAIN offers
        /\ offers[reqs[r].offer_id].owner_uid # VerifyIdToken(reqs[r].hdr.token)

\* C4: an update whose patch names owner_uid, created_at or store_id is
\* rejected: it is never answered 200 and never written to the store.
C4_ServerFieldPatchRejected ==
    \A r \in ReqIds :
        (reqs[r].op = "update"
            /\ DOMAIN reqs[r].body \cap ServerAssignedFields # {})
        => /\ reqs[r].status # 200
           /\ CommitsOf(r) = {}

\* The verified uid of the caller that created offer id, and the store_id the
\* creation derived from its product.
CreationOf(id) ==
    IF id = 1
    THEN [owner_uid |-> FixtureOffer.owner_uid, store_id |-> FixtureOffer.store_id]
    ELSE LET c == CHOOSE i \in DOMAIN commits :
                     commits[i].op = "create" /\ commits[i].offer_id = id
         IN  [owner_uid |-> commits[c].uid,
              store_id |-> Products[commits[c].doc.product_id].store_id]

\* C5: every offer in the store still has the owner_uid of its creator and the
\* store_id derived from its product when it was created.
C5_OwnerAndStoreImmutable ==
    \A id \in DOMAIN offers :
        /\ offers[id].owner_uid = CreationOf(id).owner_uid
        /\ offers[id].store_id = CreationOf(id).store_id

\* The document a request refers to does not exist when its handler reads it.
RefMissing(q) ==
    IF q.op = "create"
    THEN Get(q.body, "product_id", "") \notin DOMAIN Products
    ELSE q.offer_id \notin DOMAIN offers

\* The owner_uid the handler compares the caller with: the product's for a
\* create, the offer's for an update or delete.
RefOwner(q) ==
    IF q.op = "create" THEN Products[q.body.product_id].owner_uid
    ELSE offers[q.offer_id].owner_uid

\* C6: for an authenticated caller a reference to a nonexistent product
\* (create) or offer (update, delete) never answers 403, and answers 404
\* whenever the handler read the store; a request is answered 403 only on
\* arrival, by a handler that found the referenced document and an owner_uid
\* (product's for create, offer's for update/delete) other than the caller.
C6_ExistenceBeforeOwnership ==
    [][\A r \in ReqIds :
        /\ ( /\ Starts(r)
             /\ VerifyIdToken(reqs'[r].hdr.token) # NoUid
             /\ reqs'[r].hdr.scheme = "Bearer"
             /\ RefMissing(reqs'[r]) )
           => /\ reqs'[r].status # 403
              /\ reqs'[r].read = "ok" => reqs'[r].status = 404
        /\ (reqs[r].status # 403 /\ reqs'[r].status = 403)
           => /\ Starts(r)
              /\ reqs'[r].hdr.scheme = "Bearer"
              /\ VerifyIdToken(reqs'[r].hdr.token) # NoUid
              /\ ~RefMissing(reqs'[r])
              /\ RefOwner(reqs'[r]) # VerifyIdToken(reqs'[r].hdr.token)
      ]_vars

\* C6 witness: a create naming a nonexistent product and an update or delete
\* naming a nonexistent offer, each by an authenticated caller, answered 404.
C6_Witness ==
    \E r, q \in ReqIds :
        /\ reqs[r].op = "create" /\ reqs[r].status = 404
        /\ reqs[r].body.product_id \notin DOMAIN Products
        /\ reqs[q].op \in {"update", "delete"} /\ reqs[q].status = 404
        /\ reqs[q].offer_id \notin DOMAIN offers

\* The event type each operation announces.
EventTypeOf(op) ==
    CASE op = "create" -> "OfferCreated"
      [] op = "update" -> "OfferUpdated"
      [] op = "delete" -> "OfferDeleted"

CommitIndex(r) == CHOOSE i \in DOMAIN commits : commits[i].req = r

\* C8: the events of an update and a delete of one offer reach the sink in
\* the order in which the two mutations were committed to the store.
C8_SinkOrderIsCommitOrder ==
    \A i, j \in DOMAIN Sink :
        ( /\ i < j
          /\ Sink[i].offer_id = Sink[j].offer_id
          /\ {Sink[i].event_type, Sink[j].event_type}
                 = {"OfferUpdated", "OfferDeleted"}
          /\ Acceptable(Sink[i].req) /\ Acceptable(Sink[j].req) )
            => CommitIndex(Sink[i].req) < CommitIndex(Sink[j].req)

\* C9: an event whose publication failed is not dropped: by the time its
\* handler has ended, the event has been delivered to the sink by a retry.
C9_FailedPublishIsRetried ==
    \A r \in ReqIds :
        ( /\ reqs[r].pc = "done"
          /\ Acceptable(r)
          /\ \E i \in CallsOf(r) : calls[i].outcome = "failed" )
            => DeliveredOf(r) # {}

\* The status a handler returns after its write and its publish_event call.
SuccessStatus(op) ==
    CASE op = "create" -> 201
      [] op = "update" -> 200
      [] op = "delete" -> 204

\* C10: a handler that has written to the store answers its success status
\* when its publish_event call returns, whether the event was delivered, the
\* publish failed or there is no producer; the publish step leaves the store
\* as the write left it, and no request that wrote is answered a failure.
C10_OutcomeIndependentOfSink ==
    [][\A r \in ReqIds :
        /\ (reqs[r].pc = "publish" /\ reqs'[r].pc = "done")
           => /\ reqs'[r].status = SuccessStatus(reqs[r].op)
              /\ UNCHANGED <<offers, commits>>
              /\ \E i \in DOMAIN calls' : calls'[i].req = r
        /\ (reqs'[r].pc = "done" /\ \E i \in DOMAIN commits' : commits'[i].req = r)
           => reqs'[r].status = SuccessStatus(reqs'[r].op)
      ]_vars

\* C10 witness: an update and a delete answered 200 and 204 although the
\* publish of each one's event failed.
C10_Witness ==
    \E r, q \in ReqIds :
        /\ reqs[r].op = "update" /\ reqs[r].status = 200
        /\ reqs[q].op = "delete" /\ reqs[q].status = 204
        /\ \E i \in CallsOf(r) : calls[i].outcome = "failed"
        /\ \E i \in CallsOf(q) : calls[i].outcome = "failed"

\* The create body fails the specification's validation: product_id missing,
\* offer_price missing, or offer_price not strictly positive.
BodyRejectedBySpec(body) ==
    \/ "product_id" \notin DOMAIN body
    \/ "offer_price" \notin DOMAIN body
    \/ body.offer_price <= 0

\* C11: a create whose body lacks product_id, lacks offer_price or has an
\* offer_price <= 0 is never accepted: it is not answered 201, stores no offer
\* and produces no event.
C11_InvalidCreateRejected ==
    \A r \in ReqIds :
        (reqs[r].op = "create" /\ BodyRejectedBySpec(reqs[r].body))
        => /\ reqs[r].status # 201
           /\ CommitsOf(r) = {}
           /\ CallsOf(r) = {}

\* C12: a handler's write is applied only while the offer exists and is owned
\* by the caller at the instant of the write (requests the specification
\* accepts; ownership as the store holds it in the state the write acts on).
C12_WriteByOwnerAtWriteTime ==
    [][\A r \in ReqIds :
        ( /\ reqs[r].pc = "write"
          /\ reqs'[r].pc = "publish"
          /\ reqs[r].op \in {"update", "delete"}
          /\ \A q \in ReqIds : Acceptable(q) )
        => /\ reqs[r].offer_id \in DOMAIN offers
           /\ offers[reqs[r].offer_id].owner_uid = reqs[r].uid
      ]_vars

\* C13: with the store client initialised, a create, update or delete whose
\* Authorization header is missing, is not a Bearer header or carries a token
\* that verification rejects is answered 401 on arrival, without reading the
\* store; the step writes nothing and publishes nothing, and a request
\* answered 401 never writes or publishes afterwards.
C13_UnauthenticatedIs401 ==
    [][\A r \in ReqIds :
        /\ ( /\ Starts(r)
             /\ db
             /\ reqs'[r].op \in {"create", "update", "delete"}
             /\ \/ reqs'[r].hdr.scheme # "Bearer"
                \/ VerifyIdToken(reqs'[r].hdr.token) = NoUid )
           => /\ reqs'[r].status = 401
              /\ reqs'[r].pc = "done"
              /\ reqs'[r].read = "none"
              /\ UNCHANGED <<offers, commits, calls>>
        /\ reqs[r].status = 401
           => /\ reqs'[r] = reqs[r]
              /\ \A i \in DOMAIN commits' : commits'[i].req # r
              /\ \A i \in DOMAIN calls' : calls'[i].req # r
      ]_vars

\* C13 witness: an update of an existing offer sent with a non-Bearer header
\* and a create with a complete body sent with a rejected token, both 401.
C13_Witness ==
    \E r, q \in ReqIds :
        /\ reqs[r].op = "update" /\ reqs[r].status = 401
        /\ reqs[r].hdr.scheme = "Basic"
        /\ reqs[r].offer_id \in DOMAIN offers
        /\ reqs[r].body # Empty
        /\ reqs[q].op = "create" /\ reqs[q].status = 401
        /\ reqs[q].hdr = [scheme |-> "Bearer", token |-> "expired"]
        /\ ValidCreateBody(reqs[q].body)

\* C15: a request whose store read failed is answered 503, never 500.
C15_StoreFailureIs503 ==
    \A r \in ReqIds :
        (reqs[r].pc = "done" /\ Acceptable(r) /\ reqs[r].read = "error")
            => reqs[r].status = 503

\* The body a handler requires is missing: for a create product_id or
\* offer_price absent (or empty / zero), for an update an empty patch.
BodyMissing(q) ==
    IF q.op = "create" THEN ~ValidCreateBody(q.body) ELSE q.body = Empty

\* C17 as claimed: with the store client initialised, a create whose required
\* fields are missing is answered 400, whatever its token.
C17_ValidationBeforeToken ==
    \A r \in ReqIds :
        (db /\ reqs[r].pc = "done" /\ reqs[r].op = "create"
            /\ BodyMissing(reqs[r]))
        => reqs[r].status = 400

\* C17 amended: the handlers examine the token first, then the body, then the
\* store.  With the store client initialised, a create or update whose
\* required body is missing is answered 401 when its token is missing or
\* invalid, and 400 - before the store is read, so whether or not the product
\* or offer exists or is the caller's - when the token is valid.
C17_TokenBeforeValidation ==
    [][\A r \in ReqIds :
        ( /\ Starts(r)
          /\ db
          /\ reqs'[r].op \in {"create", "update"}
          /\ BodyMissing(reqs'[r]) )
        => /\ reqs'[r].pc = "done"
           /\ reqs'[r].read = "none"
           /\ reqs'[r].status =
                 IF reqs'[r].hdr.scheme = "Bearer"
                       /\ VerifyIdToken(reqs'[r].hdr.token) # NoUid
                 THEN 400 ELSE 401
      ]_vars

\* C17 witness: two creates with offer_price missing, one without a token
\* answered 401, one with a valid token answered 400.
C17_Witness ==
    \E r, q \in ReqIds :
        /\ reqs[r].op = "create" /\ reqs[q].op = "create"
        /\ reqs[r].body = [product_id |-> "P1"]
        /\ reqs[q].body = [product_id |-> "P1"]
        /\ reqs[r].hdr.scheme = "none" /\ reqs[r].status = 401
        /\ VerifyIdToken(reqs[q].hdr.token) # NoUid /\ reqs[q].status = 400

\* Request r's update is written to the store in this step.
UpdateCommits(r) ==
    reqs[r].op = "update" /\ reqs[r].pc = "write" /\ reqs'[r].pc = "publish"

\* C18: the update written to the store sets updated_at to the server's
\* current time, whatever updated_at the patch carried; no step lowers an
\* offer's updated_at; and the written update leaves created_at as it was
\* unless the patch itself names created_at.
C18_UpdatedAtServerStamped ==
    [][/\ \A id \in DOMAIN offers \cap DOMAIN offers' :
              offers'[id].updated_at >= offers[id].updated_at
       /\ \A r \in ReqIds :
            UpdateCommits(r) =>
                /\ offers'[reqs[r].offer_id].updated_at = clock
                /\ clock >= offers[reqs[r].offer_id].updated_at
                /\ clock' > clock
                /\ "created_at" \notin DOMAIN reqs[r].body =>
                       offers'[reqs[r].offer_id].created_at
                           = offers[reqs[r].offer_id].created_at
      ]_vars

\* C18 witness: two updates of offer 1 were written, the second with a patch
\* carrying updated_at = 0; the offer holds the later server time.
C18_Witness ==
    \E r, q \in ReqIds :
        /\ reqs[r].op = "update" /\ reqs[r].status = 200
        /\ reqs[q].op = "update" /\ reqs[q].status = 200
        /\ reqs[r].offer_id = 1 /\ reqs[q].offer_id = 1
        /\ CommitIndex(r) < CommitIndex(q)
        /\ reqs[q].body = [updated_at |-> 0]
        /\ 1 \in DOMAIN offers
        /\ offers[1].updated_at = 2
        /\ offers[1].created_at = 0

\* C19: for every offer, at most one OfferDeleted event reaches the sink, at
\* most one delete is answered 204, and no OfferUpdated event follows the
\* offer's OfferDeleted event at the sink (requests the specification
\* accepts).
C19_DeleteIsFinal ==
    (\A q \in ReqIds : Acceptable(q)) =>
        \A id \in OfferIds :
            /\ Cardinality({i \in DOMAIN Sink :
                    Sink[i].offer_id = id
                        /\ Sink[i].event_type = "OfferDeleted"}) <= 1
            /\ Cardinality({r \in ReqIds :
                    reqs[r].op = "delete" /\ reqs[r].offer_id = id
                        /\ reqs[r].status = 204}) <= 1
            /\ \A i, j \in DOMAIN Sink :
                    ( /\ i < j
                      /\ Sink[i].offer_id = id /\ Sink[j].offer_id = id
                      /\ Sink[i].event_type = "OfferDeleted" )
                    => Sink[j].event_type # "OfferUpdated"

\* C14: with the store client initialised and the read answering, a GET is
\* answered 200 with every stored field and the offer's id exactly when the
\* offer exists in the store the step reads, and 404 when it does not,
\* whatever Authorization header it carries; a GET changes neither the store
\* nor the events, in its step or afterwards.
C14_GetIsReadOnly ==
    [][\A r \in ReqIds :
        /\ (Starts(r) /\ reqs'[r].op = "get")
           => /\ UNCHANGED <<offers, clock, commits, calls>>
              /\ reqs'[r].pc = "done"
              /\ reqs'[r].read = "ok" =>
                    IF reqs'[r].offer_id \in DOMAIN offers
                    THEN /\ reqs'[r].status = 200
                         /\ DOMAIN reqs'[r].data
                               = DOMAIN offers[reqs'[r].offer_id] \cup {"id"}
                         /\ reqs'[r].data.id = reqs'[r].offer_id
                         /\ \A f \in DOMAIN offers[reqs'[r].offer_id] :
                               reqs'[r].data[f] = offers[reqs'[r].offer_id][f]
                    ELSE reqs'[r].status = 404
              /\ db => reqs'[r].read # "none"
        /\ reqs[r].op = "get"
           => /\ reqs'[r] = reqs[r]
              /\ \A i \in DOMAIN commits' : commits'[i].req # r
              /\ \A i \in DOMAIN calls' : calls'[i].req # r
      ]_vars

\* C14 witness: a GET without Authorization header answered 200 for offer 1,
\* and a GET of an offer the store does not hold answered 404.
C14_Witness ==
    \E r, q \in ReqIds :
        /\ reqs[r].op = "get" /\ reqs[r].hdr.scheme = "none"
        /\ reqs[r].status = 200 /\ reqs[r].data.id = 1
        /\ reqs[q].op = "get" /\ reqs[q].status = 404

\* C16: a health check answered while the store client and the producer are
\* both initialised is a 200 reporting each of them "ok"; one answered while
\* the producer is not initialised is a 503 reporting kafka_producer "error".
C16_HealthFollowsDependencies ==
    \A r \in ReqIds :
        (reqs[r].op = "health" /\ reqs[r].pc = "done") =>
            /\ (db /\ producer) =>
                  /\ reqs[r].status = 200
                  /\ reqs[r].data.dependencies.firestore = "ok"
                  /\ reqs[r].data.dependencies.kafka_producer = "ok"
            /\ ~producer =>
                  /\ reqs[r].status = 503
                  /\ reqs[r].data.dependencies.kafka_producer = "error"

====
